---- MODULE Spec2Model ----
(***************************************************************************)
(* Model of scripts/compute_similarities.py: the paginated fetch of        *)
(* (id, embedding) records, the clear of pattern_similarities, the chunked *)
(* upper-triangular similarity loop with threshold filter and              *)
(* canonicalisation, and the batched inserts.                              *)
(*                                                                         *)
(* Arithmetic is fixed point.  Vector components of normalized vectors are *)
(* integers in units of 1/UNIT, similarities are integers in units of      *)
(* 1/(UNIT*UNIT), stored scores are integers in millionths (6 decimals).   *)
(* Python indices are kept 0-based; sequences are 1-based, so element k of *)
(* a Python list s is s[k + 1].                                            *)
(***************************************************************************)
EXTENDS Integers, Sequences, FiniteSets, TLC

\* ---------------------------------------------------------------- bounds
MaxN == 3        \* most records the Embedding Source holds
MaxChunk == 3    \* CHUNK_SIZE ranges over 1..MaxChunk
MaxBatch == 2    \* INSERT_BATCH_SIZE ranges over 1..MaxBatch
MaxRuns == 2     \* runs of main() in a row

\* FETCH_BATCH_SIZE, scaled down from 1000: the page size of the fetch.
FETCH_BATCH_SIZE == 2

\* generate_embeddings.py
MaxPatterns == 3        \* most patterns with a thumbnail and no embedding
MaxPasses == 3          \* passes of the main loop followed
MaxRateLimits == 1      \* rate-limit answers in one run
VOYAGE_BATCH_SIZE == 2

\* detect_mirrored.py
MaxToAnalyze == 3       \* most patterns fetched for analysis
MaxBatchSize == 2       \* --batch-size ranges over 1..MaxBatchSize
MaxRetries == 3         \* max_retries ranges over 1..MaxRetries

\* bulk_rotate_portraits.py
MaxThumbnails == 3      \* most patterns with a thumbnail

\* upload_patterns.py
MaxZipEntries == 3      \* most entries of the ZIP archive
MaxDbId == 3            \* pattern ids of the table are among 1..MaxDbId
NAMES_BATCH_SIZE == 2   \* batch_size of get_existing_pattern_names

\* Resolution of the fixed-point arithmetic standing for float32.
UNIT == 20

\* MIN_SIMILARITY_THRESHOLD = 0.85, in units of 1/(UNIT*UNIT).
MIN_SIMILARITY_THRESHOLD == (85 * UNIT * UNIT) \div 100

\* Records the patterns table may hold (dimension 3).  The cosines are
\* 1.0 between ids 1 and 3, exactly 0.85 between id 2 and ids 1 and 3, 0.91
\* between ids 2 and 5, 0.6 between id 5 and ids 1 and 3, and 0 with id 4,
\* the zero vector.
RecordPool ==
    { [id |-> 1, embedding |-> <<1, 0, 0>>],
      [id |-> 2, embedding |-> <<17, 10, 3>>],
      [id |-> 3, embedding |-> <<1, 0, 0>>],
      [id |-> 4, embedding |-> <<0, 0, 0>>],
      [id |-> 5, embedding |-> <<3, 4, 0>>] }

\* Rows that may be in pattern_similarities before the first run.
StaleRows ==
    { [pattern_id_1 |-> 1, pattern_id_2 |-> 2, similarity |-> 990000],
      [pattern_id_1 |-> 2, pattern_id_2 |-> 3, similarity |-> 870000] }

VARIABLES
    source,             \* rows of patterns with a non-null embedding, in table order
    CHUNK_SIZE,         \* configuration
    INSERT_BATCH_SIZE,  \* configuration
    store,              \* rows of pattern_similarities
    pc,                 \* position of main()
    all_patterns,       \* get_all_embeddings: records accumulated
    offset,             \* get_all_embeddings: next page offset
    pattern_ids,        \* main: ids, in fetch order
    normalized,         \* compute_and_store_similarities: unit vectors
    i,                  \* outer block start
    j,                  \* inner block start
    chunk_idx,          \* row index of the cell being looked at
    compare_idx,        \* column index of the cell being looked at
    pairs_to_insert,    \* accumulation buffer
    total_pairs_found,  \* counter
    calls,              \* history: external calls of this run, in order
    submitted,          \* history: batches passed to insert_similarities, this run
    evaluated,          \* history: cells that passed the upper-triangle guard
    appended,           \* history: cells whose record was appended to the buffer
    blocks,             \* history: similarity blocks computed
    store0,             \* history: store when this run began
    run,                \* history: number of this run
    first_run           \* history: summary of the runs that ended

compute_vars ==
        <<source, CHUNK_SIZE, INSERT_BATCH_SIZE, store, pc,
          all_patterns, offset, pattern_ids, normalized, i, j, chunk_idx,
          compare_idx, pairs_to_insert, total_pairs_found, calls, submitted,
          evaluated, appended, blocks, store0, run, first_run>>

config == <<source, CHUNK_SIZE, INSERT_BATCH_SIZE>>

\* generate_embeddings.py
VARIABLES
    ge_pc,              \* position of main()
    ge_count,           \* patterns 1..ge_count have a thumbnail
    ge_failing,         \* patterns for which every attempt fails
    ge_embedded,        \* patterns whose embedding column is set
    ge_patterns,        \* main: the batch fetched
    ge_index,           \* main: position of the for loop in the batch
    total_processed,    \* counter
    total_errors,       \* counter
    ge_limited,         \* history: rate-limit answers so far
    ge_passes           \* history: what each pass of the loop started from

ge_vars == <<ge_pc, ge_count, ge_failing, ge_embedded, ge_patterns, ge_index,
             total_processed, total_errors, ge_limited, ge_passes>>

\* detect_mirrored.py: main and process_batch
VARIABLES
    dm_pc,              \* position of main()
    dm_patterns,        \* main: ids of the patterns fetched for analysis
    dm_env,             \* what download, analysis and store give per pattern
    dry_run,            \* args.dry_run
    batch_size,         \* args.batch_size
    dm_i,               \* main: start of the batch being processed
    total_normal,       \* counter
    total_mirrored,     \* counter
    total_failed,       \* counter
    mirror_analysis,    \* pattern ids with a row in mirror_analysis
    dm_reports,         \* history: the per-pattern lines printed
    dm_downloads,       \* history: patterns passed to download_image
    dm_analyzed,        \* history: patterns passed to analyze_image
    dm_store_calls      \* history: patterns passed to store_result

dm_vars == <<dm_pc, dm_patterns, dm_env, dry_run, batch_size, dm_i,
             total_normal, total_mirrored, total_failed, mirror_analysis,
             dm_reports, dm_downloads, dm_analyzed, dm_store_calls>>

\* detect_mirrored.py: one call of download_image, analyze_image or store_result
VARIABLES
    rt_pc,              \* position of the call
    rt_fn,              \* which of the three functions
    max_retries,        \* its parameter
    attempt,            \* loop variable
    rt_return,          \* return value
    rt_responses,       \* history: the answer to each request made
    rt_sleeps           \* history: the seconds of each asyncio.sleep

rt_vars == <<rt_pc, rt_fn, max_retries, attempt, rt_return, rt_responses,
             rt_sleeps>>

\* bulk_rotate_portraits.py
VARIABLES
    br_pc,              \* position of main()
    br_env,             \* per pattern: shape of its thumbnail, embedding at start
    br_dry_run,         \* args.dry_run
    br_i,               \* index of the loop main is in
    portraits,          \* main: ids found to be portrait
    errors,             \* main: ids whose dimensions could not be read
    rotated,            \* counter
    failed,             \* counter
    thumbnail,          \* per pattern: the stored image, "original" or "rotated"
    embedding,          \* per pattern: whether the embedding column is set
    br_returns          \* history: the calls of rotate_and_upload and their value

br_vars == <<br_pc, br_env, br_dry_run, br_i, portraits, errors, rotated,
             failed, thumbnail, embedding, br_returns>>

\* upload_patterns.py
VARIABLES
    up_pc,              \* position of process_zip
    namelist,           \* zf.namelist(): the entries of the archive, in order
    db,                 \* the patterns table: a set of rows [id, file_name]
    valid_patterns,     \* the catalog entries that have a QLI file, in order
    new_patterns,       \* the entries that are not duplicates, in order
    duplicates,         \* the names found in the table
    next_id,            \* the value of get_next_pattern_id
    up_i,               \* index of the upload loop
    up_results,           \* the summary dict: uploaded, skipped, errors
    db_at_read,         \* history: the table when the next id was read
    assigned            \* history: the id given to each new pattern

up_vars == <<up_pc, namelist, db, valid_patterns, new_patterns, duplicates,
             next_id, up_i, up_results, db_at_read, assigned>>

\* The state of the other scripts, which a run of compute_similarities.py
\* does not touch.
script_vars == <<ge_vars, dm_vars, rt_vars, br_vars, up_vars>>

vars == <<compute_vars, script_vars>>

\* ------------------------------------------------------------ arithmetic
Min(a, b) == IF a <= b THEN a ELSE b
Max(a, b) == IF a >= b THEN a ELSE b
Abs(a) == IF a < 0 THEN -a ELSE a

RECURSIVE SeqSum(_)
SeqSum(s) == IF s = <<>> THEN 0 ELSE s[1] + SeqSum(Tail(s))

\* np.dot of two vectors.
Dot(u, w) == SeqSum([k \in 1..Len(u) |-> u[k] * w[k]])

\* Floor of the square root.
ISqrt(x, hi) == CHOOSE r \in 0..hi : r * r <= x /\ (r + 1) * (r + 1) > x

\* np.linalg.norm of one row, in units of 1/UNIT.
Norm(v) ==
    ISqrt(Dot(v, v) * UNIT * UNIT, SeqSum([k \in 1..Len(v) |-> Abs(v[k])]) * UNIT)

\* norms = np.where(norms == 0, 1, norms)
NonZeroNorm(norm) == IF norm = 0 THEN UNIT ELSE norm

\* embeddings / norms: rows in units of 1/UNIT.
normalize_embeddings(embeddings) ==
    [k \in 1..Len(embeddings) |->
        [d \in 1..Len(embeddings[k]) |->
            (embeddings[k][d] * UNIT * UNIT) \div NonZeroNorm(Norm(embeddings[k]))]]

\* round(sim, 6): a similarity in units of 1/(UNIT*UNIT) as millionths.
Round6(sim) == (2 * sim * 1000000 + UNIT * UNIT) \div (2 * UNIT * UNIT)

\* ------------------------------------------------------ Embedding Source
\* Variant: the rows are returned in table order, without order=id.asc.
TableOrder(rows) == rows

\* "order": "id.asc": the rows of the table by ascending id.
RECURSIVE SortById(_)
SortById(rows) ==
    IF rows = <<>> THEN <<>>
    ELSE LET m == CHOOSE k \in 1..Len(rows) :
                    \A l \in 1..Len(rows) : rows[k].id <= rows[l].id
         IN  <<rows[m]>> \o
             SortById(SubSeq(rows, 1, m - 1) \o SubSeq(rows, m + 1, Len(rows)))

\* One page: limit, offset, of the rows of the table in ascending id order.
Page(rows, off, limit) ==
    SubSeq(SortById(rows), off + 1, Min(off + limit, Len(rows)))

\* A pagination loop that also stops at a page shorter than the page size,
\* before the page is added to the result.
EndOfDataShort(batch) == Len(batch) < FETCH_BATCH_SIZE

\* The page that ends the pagination loop: the empty page.
EndOfData(batch) == batch = <<>>

\* response.raise_for_status() / response.json(): anything but a good page raises.
FetchOutcomes == {"ok", "http_error", "malformed"}
\* Variant: the status and the body of a page are not checked.
FetchNeverRaises(outcome) == FALSE

FetchRaises(outcome) == outcome # "ok"

\* Variant: main goes on to the clear whatever was fetched.
main_after_fetch_always(ids) == "clear"

\* main: if len(pattern_ids) == 0: return
main_after_fetch(ids) == IF Len(ids) = 0 THEN "done" ELSE "clear"

\* ------------------------------------------------------------ Pair Store
Key(row) == <<row.pattern_id_1, row.pattern_id_2>>

\* DELETE ... ?pattern_id_1=gte.0 answered 200/204.
ClearOutcomes == {"ok", "absent", "http_error", "exception"}
\* Variant: a clear that reports success and deletes nothing.
ClearKeepsRows(rows, outcome) == rows

StoreAfterClear(rows, outcome) == IF outcome = "ok" THEN {} ELSE rows

\* Variant: a plain insert that adds every row, whatever keys are present.
InsertBlindly(rows, pairs) == rows \cup { pairs[k] : k \in 1..Len(pairs) }

\* POST with Prefer: resolution=ignore-duplicates, rows taken in order: a row
\* whose key is already present is skipped.
RECURSIVE IgnoreDuplicates(_, _)
IgnoreDuplicates(rows, pairs) ==
    IF pairs = <<>> THEN rows
    ELSE IgnoreDuplicates(
            IF \E r \in rows : Key(r) = Key(pairs[1]) THEN rows
            ELSE rows \cup {pairs[1]},
            Tail(pairs))

InsertOutcomes == {"ok", "http_error", "exception"}
StoreAfterInsert(rows, pairs, outcome) ==
    IF outcome = "ok" THEN IgnoreDuplicates(rows, pairs) ELSE rows

\* ----------------------------------------------------- chunked block loop
n == Len(pattern_ids)

\* Variant: the compared slice starts at the row block's start.
j_startRow(a, b) == a

chunk_end(a) == Min(a + CHUNK_SIZE, n)
j_start(a, b) == Max(b, a)
j_end(b) == Min(b + CHUNK_SIZE, n)

\* normalized[lo:hi]
Slice(s, lo, hi) == SubSeq(s, lo + 1, hi)

\* similarities = np.dot(chunk_embeddings, compare_embeddings.T) of block (a, b)
similarities(a, b) ==
    LET chunk_embeddings == Slice(normalized, a, chunk_end(a))
        compare_embeddings == Slice(normalized, j_start(a, b), j_end(b))
    IN  [ci \in 0..(Len(chunk_embeddings) - 1) |->
            [cj \in 0..(Len(compare_embeddings) - 1) |->
                Dot(chunk_embeddings[ci + 1], compare_embeddings[cj + 1])]]

\* Variant: no upper-triangle guard, every cell of a block is compared.
SkipCellNever(ri, rj) == FALSE

\* Variant: the guard written with > lets the diagonal through.
SkipCellStrict(ri, rj) == ri > rj

\* if chunk_idx >= compare_idx: continue
SkipCell(ri, rj) == ri >= rj

\* Variant: a threshold of 0.
AboveThresholdZero(sim) == sim >= 0

\* Variant: the threshold test written with >.
AboveThresholdStrict(sim) == sim > MIN_SIMILARITY_THRESHOLD

\* if sim >= MIN_SIMILARITY_THRESHOLD
AboveThreshold(sim) == sim >= MIN_SIMILARITY_THRESHOLD

\* Variant: the ids are stored in index order, without the swap.
CanonicalNoSwap(id1, id2) == <<id1, id2>>

\* Variant: the swap is made the wrong way round.
CanonicalSwapLow(id1, id2) == IF id1 < id2 THEN <<id2, id1>> ELSE <<id1, id2>>

\* id1, id2 = ...; if id1 > id2: id1, id2 = id2, id1
Canonical(id1, id2) == IF id1 > id2 THEN <<id2, id1>> ELSE <<id1, id2>>

PairRecord(ri, rj, sim) ==
    LET ids == Canonical(pattern_ids[ri + 1], pattern_ids[rj + 1])
    IN  [pattern_id_1 |-> ids[1], pattern_id_2 |-> ids[2],
         similarity |-> Round6(sim)]

\* Variant: the batch just sent stays in the buffer.
BufferKept(buf) == buf

\* pairs_to_insert = [] after the insert call inside the loops
BufferAfterFlush(buf) == <<>>

\* Variant: the buffer is flushed one record late.
BufferFullLate(pairs) == Len(pairs) > INSERT_BATCH_SIZE

\* if len(pairs_to_insert) >= INSERT_BATCH_SIZE
BufferFull(pairs) == Len(pairs) >= INSERT_BATCH_SIZE

\* Variant: the remainder is never flushed.
HasRemainderNever(pairs) == FALSE

\* if pairs_to_insert: (the remainder after the loops)
HasRemainder(pairs) == pairs # <<>>

\* Variant: the inner block loop restarts at column 0 for every row block,
\* for j in range(0, n, CHUNK_SIZE).
NextCellRestart(a, b, ri, rj) ==
    IF rj + 1 < j_end(b) THEN <<a, b, ri, rj + 1>>
    ELSE IF ri + 1 < chunk_end(a) THEN <<a, b, ri + 1, j_start(a, b)>>
    ELSE IF b + CHUNK_SIZE < n
        THEN <<a, b + CHUNK_SIZE, a, j_start(a, b + CHUNK_SIZE)>>
    ELSE IF a + CHUNK_SIZE < n
        THEN <<a + CHUNK_SIZE, 0, a + CHUNK_SIZE, j_start(a + CHUNK_SIZE, 0)>>
    ELSE <<n, n, n, n>>

\* The cell after (a, b, ri, rj) in the four nested range() loops; a = n
\* when every loop is exhausted.
NextCell(a, b, ri, rj) ==
    IF rj + 1 < j_end(b) THEN <<a, b, ri, rj + 1>>
    ELSE IF ri + 1 < chunk_end(a) THEN <<a, b, ri + 1, j_start(a, b)>>
    ELSE IF b + CHUNK_SIZE < n
        THEN <<a, b + CHUNK_SIZE, a, j_start(a, b + CHUNK_SIZE)>>
    ELSE IF a + CHUNK_SIZE < n
        THEN <<a + CHUNK_SIZE, a + CHUNK_SIZE, a + CHUNK_SIZE, a + CHUNK_SIZE>>
    ELSE <<n, n, n, n>>

BlockOf(a, b) ==
    [a |-> a, b |-> b,
     rows |-> chunk_end(a) - a, cols |-> j_end(b) - j_start(a, b)]

\* ------------------------------------------------------------------ Init
\* generate_embeddings.py is not running.
GenIdle ==
    /\ ge_pc = "idle"
    /\ ge_count = 0
    /\ ge_failing = {}
    /\ ge_embedded = {}
    /\ ge_patterns = <<>>
    /\ ge_index = 0
    /\ total_processed = 0
    /\ total_errors = 0
    /\ ge_limited = 0
    /\ ge_passes = <<>>

\* detect_mirrored.py is not running.
MirrorIdle ==
    /\ dm_pc = "idle"
    /\ dm_patterns = <<>>
    /\ dm_env = <<>>
    /\ dry_run = FALSE
    /\ batch_size = 1
    /\ dm_i = 0
    /\ total_normal = 0
    /\ total_mirrored = 0
    /\ total_failed = 0
    /\ mirror_analysis = {}
    /\ dm_reports = <<>>
    /\ dm_downloads = <<>>
    /\ dm_analyzed = <<>>
    /\ dm_store_calls = <<>>

\* No call of download_image, analyze_image or store_result is followed.
RetryIdle ==
    /\ rt_pc = "idle"
    /\ rt_fn = "none"
    /\ max_retries = 0
    /\ attempt = 0
    /\ rt_return = "none"
    /\ rt_responses = <<>>
    /\ rt_sleeps = <<>>

\* bulk_rotate_portraits.py is not running.
RotateIdle ==
    /\ br_pc = "idle"
    /\ br_env = <<>>
    /\ br_dry_run = FALSE
    /\ br_i = 0
    /\ portraits = <<>>
    /\ errors = <<>>
    /\ rotated = 0
    /\ failed = 0
    /\ thumbnail = <<>>
    /\ embedding = <<>>
    /\ br_returns = <<>>

\* upload_patterns.py is not running.
UploadIdle ==
    /\ up_pc = "idle"
    /\ namelist = <<>>
    /\ db = {}
    /\ valid_patterns = <<>>
    /\ new_patterns = <<>>
    /\ duplicates = <<>>
    /\ next_id = 0
    /\ up_i = 0
    /\ up_results = [uploaded |-> <<>>, skipped |-> <<>>, errors |-> <<>>]
    /\ db_at_read = {}
    /\ assigned = <<>>

ScriptsIdle == GenIdle /\ MirrorIdle /\ RetryIdle /\ RotateIdle /\ UploadIdle

RECURSIVE InjectiveSeqs(_, _)
InjectiveSeqs(S, len) ==
    IF len = 0 THEN {<<>>}
    ELSE UNION { { Append(s, x) : x \in S \ { s[k] : k \in 1..Len(s) } } :
                 s \in InjectiveSeqs(S, len - 1) }

\* The rows with a non-null embedding, in any table order.
Sources == UNION { InjectiveSeqs(RecordPool, len) : len \in 0..MaxN }

Init ==
    /\ ScriptsIdle
    /\ source \in Sources
    /\ CHUNK_SIZE \in 1..MaxChunk
    /\ INSERT_BATCH_SIZE \in 1..MaxBatch
    /\ store \in {{}, StaleRows}
    /\ store0 = store
    /\ pc = "fetch"
    /\ all_patterns = <<>>
    /\ offset = 0
    /\ pattern_ids = <<>>
    /\ normalized = <<>>
    /\ i = 0 /\ j = 0 /\ chunk_idx = 0 /\ compare_idx = 0
    /\ pairs_to_insert = <<>>
    /\ total_pairs_found = 0
    /\ calls = <<>>
    /\ submitted = <<>>
    /\ evaluated = <<>>
    /\ appended = <<>>
    /\ blocks = <<>>
    /\ run = 1
    /\ first_run = <<>>

\* --------------------------------------------------------------- actions
\* get_all_embeddings: one page request; on the empty page, the rest of
\* get_all_embeddings and main up to the clear.
Fetch ==
    /\ UNCHANGED script_vars
    /\ pc = "fetch"
    /\ \E outcome \in FetchOutcomes :
        LET batch == IF outcome = "ok"
                     THEN Page(source, offset, FETCH_BATCH_SIZE) ELSE <<>>
            ids == [k \in 1..Len(all_patterns) |-> all_patterns[k].id]
        IN  /\ calls' = Append(calls, [op |-> "get", offset |-> offset,
                                       outcome |-> outcome])
            /\ IF FetchRaises(outcome)
               THEN /\ pc' = "aborted"
                    /\ UNCHANGED <<all_patterns, offset, pattern_ids>>
               ELSE IF EndOfData(batch)
               THEN /\ pc' = main_after_fetch(ids)
                    /\ pattern_ids' = ids
                    /\ UNCHANGED <<all_patterns, offset>>
               ELSE /\ all_patterns' = all_patterns \o batch
                    /\ offset' = offset + Len(batch)
                    /\ UNCHANGED <<pc, pattern_ids>>
    /\ UNCHANGED <<config, store, normalized, i, j, chunk_idx, compare_idx,
                   pairs_to_insert, total_pairs_found, submitted, evaluated,
                   appended, blocks, store0, run, first_run>>

\* Start of compute_and_store_similarities after the clear: n == 0 returns,
\* otherwise the vectors are normalized and the loops enter their first cell.
StartCompute ==
    IF n = 0
    THEN /\ pc' = "done"
         /\ UNCHANGED <<normalized, blocks>>
    ELSE /\ pc' = "compute"
         /\ normalized' =
                normalize_embeddings([k \in 1..Len(all_patterns) |->
                                        all_patterns[k].embedding])
         /\ blocks' = <<[a |-> 0, b |-> 0,
                         rows |-> Min(CHUNK_SIZE, n), cols |-> Min(CHUNK_SIZE, n)]>>

\* clear_similarities_table, then the start of compute_and_store_similarities.
Clear ==
    /\ UNCHANGED script_vars
    /\ pc = "clear"
    /\ \E outcome \in ClearOutcomes :
        /\ outcome = "absent" => store = {}
        /\ calls' = Append(calls, [op |-> "delete", offset |-> 0,
                                   outcome |-> outcome])
        /\ IF outcome = "exception"
           THEN /\ pc' = "aborted"
                /\ UNCHANGED <<store, normalized, blocks>>
           ELSE /\ store' = StoreAfterClear(store, outcome)
                /\ StartCompute
    /\ i' = 0 /\ j' = 0 /\ chunk_idx' = 0 /\ compare_idx' = 0
    /\ pairs_to_insert' = <<>>
    /\ total_pairs_found' = 0
    /\ UNCHANGED <<config, all_patterns, offset, pattern_ids, submitted,
                   evaluated, appended, store0, run, first_run>>

\* Move to the cell after the current one; when the loops are exhausted,
\* the remainder is flushed if there is one (buf is the buffer by then).
Advance(buf) ==
    LET nxt == NextCell(i, j, chunk_idx, compare_idx)
    IN  /\ i' = nxt[1] /\ j' = nxt[2]
        /\ chunk_idx' = nxt[3] /\ compare_idx' = nxt[4]
        /\ blocks' = IF nxt[1] < n /\ <<nxt[1], nxt[2]>> # <<i, j>>
                     THEN Append(blocks, BlockOf(nxt[1], nxt[2]))
                     ELSE blocks
        /\ pc' = IF nxt[1] < n THEN "compute"
                 ELSE IF HasRemainder(buf) THEN "final_flush" ELSE "done"

\* One iteration of the innermost loop, up to the insert call if it makes one.
Cell ==
    /\ UNCHANGED script_vars
    /\ pc = "compute"
    /\ IF SkipCell(chunk_idx, compare_idx)
       THEN /\ Advance(pairs_to_insert)
            /\ UNCHANGED <<pairs_to_insert, total_pairs_found, evaluated,
                           appended>>
       ELSE LET sim == similarities(i, j)[chunk_idx - i][compare_idx - j_start(i, j)]
                rec == PairRecord(chunk_idx, compare_idx, sim)
                buf == Append(pairs_to_insert, rec)
            IN  /\ evaluated' = Append(evaluated,
                                       [i |-> chunk_idx, j |-> compare_idx,
                                        sim |-> sim])
                /\ IF AboveThreshold(sim)
                   THEN /\ pairs_to_insert' = buf
                        /\ total_pairs_found' = total_pairs_found + 1
                        /\ appended' = Append(appended,
                                              [i |-> chunk_idx, j |-> compare_idx,
                                               sim |-> sim, record |-> rec])
                        /\ IF BufferFull(buf)
                           THEN /\ pc' = "flush"
                                /\ UNCHANGED <<i, j, chunk_idx, compare_idx, blocks>>
                           ELSE Advance(buf)
                   ELSE /\ Advance(pairs_to_insert)
                        /\ UNCHANGED <<pairs_to_insert, total_pairs_found,
                                       appended>>
    /\ UNCHANGED <<config, store, all_patterns, offset, pattern_ids, normalized,
                   calls, submitted, store0, run, first_run>>

\* insert_similarities(pairs_to_insert); pairs_to_insert = [] inside the loops.
Flush ==
    /\ UNCHANGED script_vars
    /\ pc = "flush"
    /\ \E outcome \in InsertOutcomes :
        /\ calls' = Append(calls, [op |-> "post", offset |-> 0,
                                   outcome |-> outcome])
        /\ submitted' = Append(submitted, pairs_to_insert)
        /\ store' = StoreAfterInsert(store, pairs_to_insert, outcome)
        /\ IF outcome = "exception"
           THEN /\ pc' = "aborted"
                /\ UNCHANGED <<pairs_to_insert, i, j, chunk_idx, compare_idx,
                               blocks>>
           ELSE /\ pairs_to_insert' = BufferAfterFlush(pairs_to_insert)
                /\ Advance(BufferAfterFlush(pairs_to_insert))
    /\ UNCHANGED <<config, all_patterns, offset, pattern_ids, normalized,
                   total_pairs_found, evaluated, appended, store0, run,
                   first_run>>

\* if pairs_to_insert: insert_similarities(pairs_to_insert) after the loops,
\* then the summary and the return to main.
FlushRemaining ==
    /\ UNCHANGED script_vars
    /\ pc = "final_flush"
    /\ \E outcome \in InsertOutcomes :
        /\ calls' = Append(calls, [op |-> "post", offset |-> 0,
                                   outcome |-> outcome])
        /\ submitted' = Append(submitted, pairs_to_insert)
        /\ store' = StoreAfterInsert(store, pairs_to_insert, outcome)
        /\ pc' = IF outcome = "exception" THEN "aborted" ELSE "done"
    /\ UNCHANGED <<config, all_patterns, offset, pattern_ids, normalized, i, j,
                   chunk_idx, compare_idx, pairs_to_insert, total_pairs_found,
                   evaluated, appended, blocks, store0, run, first_run>>

\* Every external call of the run got a success answer.
CleanRun ==
    \A k \in 1..Len(calls) : calls[k].outcome \in {"ok", "absent"}

\* The script is run again on the same embedding set, after a run in which
\* every call succeeded.
Rerun ==
    /\ UNCHANGED script_vars
    /\ pc = "done"
    /\ CleanRun
    /\ run < MaxRuns
    /\ run' = run + 1
    /\ first_run' = Append(first_run,
                           [store |-> store, pc |-> pc, clean |-> CleanRun])
    /\ store0' = store
    /\ pc' = "fetch"
    /\ all_patterns' = <<>>
    /\ offset' = 0
    /\ pattern_ids' = <<>>
    /\ normalized' = <<>>
    /\ i' = 0 /\ j' = 0 /\ chunk_idx' = 0 /\ compare_idx' = 0
    /\ pairs_to_insert' = <<>>
    /\ total_pairs_found' = 0
    /\ calls' = <<>>
    /\ submitted' = <<>>
    /\ evaluated' = <<>>
    /\ appended' = <<>>
    /\ blocks' = <<>>
    /\ UNCHANGED <<config, store>>

\* ------------------------------------------------- reference definitions
\* The loops of compute_and_store_similarities are exhausted.
LoopsDone == n > 0 /\ i = n

RECURSIVE Flatten(_)
Flatten(batches) ==
    IF batches = <<>> THEN <<>> ELSE batches[1] \o Flatten(Tail(batches))

Range(s) == { s[k] : k \in 1..Len(s) }

\* Entries with a < b of the full n x n matrix of dot products.
UpperTriangle ==
    LET idx == 0..(Len(normalized) - 1)
    IN  { [i |-> c[1], j |-> c[2],
           sim |-> Dot(normalized[c[1] + 1], normalized[c[2] + 1])] :
          c \in { d \in idx \X idx : d[1] < d[2] } }

\* The rows a dense computation over the source gives: every index pair
\* a < b whose similarity is at least the threshold, ids ordered, score
\* rounded.  Depends on the source alone.
ExpectedRows ==
    LET unit == normalize_embeddings([k \in 1..Len(source) |->
                                        source[k].embedding])
        Sim(a, b) == Dot(unit[a], unit[b])
    IN  { [pattern_id_1 |-> Min(source[a].id, source[b].id),
           pattern_id_2 |-> Max(source[a].id, source[b].id),
           similarity |-> Round6(Sim(a, b))] :
          <<a, b>> \in { c \in (1..Len(source)) \X (1..Len(source)) :
                            c[1] < c[2] /\
                            Sim(c[1], c[2]) >= MIN_SIMILARITY_THRESHOLD } }

\* Number of external calls of one kind in this run.
NumCalls(op) == Cardinality({ k \in 1..Len(calls) : calls[k].op = op })

\* One run of the script.
Next == Fetch \/ Clear \/ Cell \/ Flush \/ FlushRemaining

Spec == Init /\ [][Next]_vars

\* Runs of the script in a row, on one embedding set.
NextRerun == Fetch \/ Clear \/ Cell \/ Flush \/ FlushRemaining \/ Rerun

SpecRerun == Init /\ [][NextRerun]_vars

\* compute_and_store_similarities(pattern_ids, embeddings) as main calls it,
\* after the fetch, but on records in any order: ids need not ascend.
InitCompute ==
    /\ ScriptsIdle
    /\ source \in Sources
    /\ CHUNK_SIZE \in 1..MaxChunk
    /\ INSERT_BATCH_SIZE \in 1..MaxBatch
    /\ store \in {{}, StaleRows}
    /\ store0 = store
    /\ pc = "clear"
    /\ all_patterns = source
    /\ offset = Len(source)
    /\ pattern_ids = [k \in 1..Len(source) |-> source[k].id]
    /\ normalized = <<>>
    /\ i = 0 /\ j = 0 /\ chunk_idx = 0 /\ compare_idx = 0
    /\ pairs_to_insert = <<>>
    /\ total_pairs_found = 0
    /\ calls = <<>>
    /\ submitted = <<>>
    /\ evaluated = <<>>
    /\ appended = <<>>
    /\ blocks = <<>>
    /\ run = 1
    /\ first_run = <<>>

NextCompute == Clear \/ Cell \/ Flush \/ FlushRemaining

SpecCompute == InitCompute /\ [][NextCompute]_vars

\* ---------------------------------------------------------------- claims
\* C1: the cells the chunked block loop evaluates are, as a multiset,
\* exactly the entries i < j of the full similarity matrix, each with the
\* value dot(normalized[i], normalized[j]): never a cell outside the upper
\* triangle, never one twice, and all of them once the loops are exhausted.
C1_ChunkedEqualsFullMatrix ==
    /\ Range(evaluated) \subseteq UpperTriangle
    /\ Cardinality(Range(evaluated)) = Len(evaluated)
    /\ LoopsDone => Range(evaluated) = UpperTriangle

\* C1 witness: three items in blocks of two (a ragged last block), loops
\* exhausted, all three pairs evaluated.
C1_Witness ==
    /\ LoopsDone /\ n = 3 /\ CHUNK_SIZE = 2
    /\ Len(evaluated) = 3 /\ Len(blocks) = 3

\* C2: in a run that ends without an I/O failure the set of records
\* submitted is the set a dense computation over the source gives, which
\* depends on neither CHUNK_SIZE nor INSERT_BATCH_SIZE.
C2_SubmittedSetChunkInvariant ==
    (pc = "done" /\ CleanRun) => Range(Flatten(submitted)) = ExpectedRows

\* C2 witness: three records found with chunk size 2 and batch size 2, sent
\* as a full batch and a remainder.
C2_Witness ==
    /\ pc = "done" /\ CleanRun
    /\ CHUNK_SIZE = 2 /\ INSERT_BATCH_SIZE = 2
    /\ Len(submitted) = 2 /\ Cardinality(ExpectedRows) = 3

\* C3: every record passed to insert_similarities, and every record in the
\* buffer, has pattern_id_1 < pattern_id_2.
C3_CanonicalOrder ==
    /\ \A r \in Range(Flatten(submitted)) : r.pattern_id_1 < r.pattern_id_2
    /\ \A r \in Range(pairs_to_insert) : r.pattern_id_1 < r.pattern_id_2

\* C3 witness: a submitted record whose ids arrived in descending order.
C3_Witness ==
    \E k \in 1..Len(appended) :
        /\ pattern_ids[appended[k].i + 1] > pattern_ids[appended[k].j + 1]
        /\ appended[k].record \in Range(Flatten(submitted))

\* C4: the record appended for index pair (i, j) carries exactly
\* min(pattern_ids[i], pattern_ids[j]) and max(pattern_ids[i], pattern_ids[j]).
C4_RecordNamesComparedItems ==
    \A k \in 1..Len(appended) :
        LET e == appended[k]
        IN  /\ e.i < e.j
            /\ e.record.pattern_id_1 =
                    Min(pattern_ids[e.i + 1], pattern_ids[e.j + 1])
            /\ e.record.pattern_id_2 =
                    Max(pattern_ids[e.i + 1], pattern_ids[e.j + 1])

\* C4 witness: a run that ended with a record for a pair whose ids are not
\* monotonic with fetch order, next to one whose ids are.
C4_Witness ==
    /\ pc = "done"
    /\ \E k \in 1..Len(appended) :
            pattern_ids[appended[k].i + 1] > pattern_ids[appended[k].j + 1]
    /\ \E k \in 1..Len(appended) :
            pattern_ids[appended[k].i + 1] < pattern_ids[appended[k].j + 1]

\* C5: a record is appended for an evaluated index pair exactly when its
\* similarity is at least MIN_SIMILARITY_THRESHOLD, and at the end of a run
\* the index pairs whose records were submitted are exactly the pairs
\* i < j with similarity at or above the threshold.
C5_SubmittedIffAtLeastThreshold ==
    /\ \A e \in Range(evaluated) :
            (e.sim >= MIN_SIMILARITY_THRESHOLD) <=>
            (\E k \in 1..Len(appended) :
                appended[k].i = e.i /\ appended[k].j = e.j)
    /\ \A k \in 1..Len(appended) : appended[k].sim >= MIN_SIMILARITY_THRESHOLD
    /\ \A k \in 1..Len(Flatten(submitted)) :
            k <= Len(appended) /\ Flatten(submitted)[k] = appended[k].record
    /\ pc = "done" /\ n > 0 =>
            { <<appended[k].i, appended[k].j>> :
                k \in 1..Len(Flatten(submitted)) } =
            { <<e.i, e.j>> :
                e \in { u \in UpperTriangle :
                            u.sim >= MIN_SIMILARITY_THRESHOLD } }

\* C5 witness: a finished run that submitted a pair whose similarity equals
\* the threshold and discarded a pair below it.
C5_Witness ==
    /\ pc = "done"
    /\ \E k \in 1..Len(Flatten(submitted)) :
            appended[k].sim = MIN_SIMILARITY_THRESHOLD
    /\ \E e \in Range(evaluated) : e.sim < MIN_SIMILARITY_THRESHOLD

\* C6: after a run that completes, the Pair Store holds exactly the rows
\* computed in that run from the current embeddings, whatever it held
\* before and also when the embedding set is empty.
C6_StoreIsExactlyThisRun ==
    pc = "done" => store = ExpectedRows

C8_BatchesPartitionFound ==
    /\ \A k \in 1..Len(submitted) :
            /\ Len(submitted[k]) >= 1
            /\ Len(submitted[k]) <= INSERT_BATCH_SIZE
            /\ k < Len(submitted) => Len(submitted[k]) = INSERT_BATCH_SIZE
    /\ pc = "compute" => Len(pairs_to_insert) < INSERT_BATCH_SIZE
    /\ pc = "flush" => Len(pairs_to_insert) = INSERT_BATCH_SIZE
    /\ pc = "final_flush" =>
            /\ Len(pairs_to_insert) >= 1
            /\ Len(pairs_to_insert) < INSERT_BATCH_SIZE
    /\ total_pairs_found = Len(appended)
    /\ pc = "done" =>
            /\ Flatten(submitted) = [k \in 1..Len(appended) |-> appended[k].record]
            /\ SeqSum([k \in 1..Len(submitted) |-> Len(submitted[k])]) =
                    total_pairs_found

\* C8 witness: three records found with batch size 2, sent as a full batch
\* inside the loops and a remainder of one after them.
C8_Witness ==
    /\ pc = "done" /\ INSERT_BATCH_SIZE = 2 /\ total_pairs_found = 3
    /\ Len(submitted) = 2
    /\ Len(submitted[1]) = 2 /\ Len(submitted[2]) = 1

\* C9: the store never holds two rows with one key (pattern_id_1,
\* pattern_id_2); a run stops early only on a failed call, never on an
\* insert that was answered with success; and a second run on the same
\* embedding set, after a first run whose calls all succeeded, with every
\* fetch and insert of its own succeeding, leaves the store with the rows
\* the first run left, also when its clear failed and every key it
\* submits is already present.
C9_RerunIdempotent ==
    /\ \A r1, r2 \in store : Key(r1) = Key(r2) => r1 = r2
    /\ pc = "aborted" => calls[Len(calls)].outcome \notin {"ok", "absent"}
    /\ ( /\ run = 2 /\ pc = "done"
         /\ first_run[1].clean
         /\ \A k \in 1..Len(calls) :
                calls[k].op # "delete" => calls[k].outcome = "ok" )
        => store = first_run[1].store

\* C9 witness: the second run ended after its clear failed, so that every
\* record it inserted was already in the store, and the store is unchanged.
C9_Witness ==
    /\ run = 2 /\ pc = "done" /\ first_run[1].clean
    /\ \E k \in 1..Len(calls) :
            calls[k].op = "delete" /\ calls[k].outcome = "http_error"
    /\ \A k \in 1..Len(calls) :
            calls[k].op # "delete" => calls[k].outcome = "ok"
    /\ Len(submitted) >= 2
    /\ Range(Flatten(submitted)) \subseteq store0
    /\ store = store0

\* C10: once a page fetch has failed (error status or malformed page) the
\* run is over, it has called neither clear_similarities_table nor
\* insert_similarities, and the store is as it was when the run began.
C10_FetchFailureLeavesStore ==
    (\E k \in 1..Len(calls) : calls[k].op = "get" /\ calls[k].outcome # "ok")
        => /\ pc = "aborted"
           /\ NumCalls("delete") = 0
           /\ NumCalls("post") = 0
           /\ store = store0

\* C10 witness: the second page is malformed after a first page was read,
\* with rows in the store.
C10_Witness ==
    /\ pc = "aborted"
    /\ Len(calls) = 2
    /\ calls[1].outcome = "ok" /\ calls[2].outcome = "malformed"
    /\ all_patterns # <<>>
    /\ store # {}

\* C11: once the clear has been answered with anything but success or
\* table-absent, the run is over: no cell is evaluated and no batch is
\* inserted into the uncleared store.
C11_ClearFailureIsFatal ==
    (\E k \in 1..Len(calls) :
        calls[k].op = "delete" /\ calls[k].outcome \notin {"ok", "absent"})
        => /\ pc = "aborted"
           /\ evaluated = <<>>
           /\ NumCalls("post") = 0

\* C12: a failed flush never ends the run: the run is never found stopped
\* with an insert call as the last thing it did.
C12_FailedFlushDoesNotAbort ==
    (pc = "aborted" /\ calls # <<>>) => calls[Len(calls)].op # "post"

\* What the end-of-run summary of compute_and_store_similarities reports
\* (the elapsed time aside).
Summary == [found |-> total_pairs_found]

\* C13: the summary of a finished run names the pairs found, the pairs
\* stored and the failed flushes, and after a failed flush it reports fewer
\* pairs stored than found.
C13_SummaryReportsStoredAndFailed ==
    (/\ pc = "done"
     /\ n > 0
     /\ \E k \in 1..Len(calls) :
            calls[k].op = "post" /\ calls[k].outcome # "ok")
        => /\ {"found", "stored", "failed"} \subseteq DOMAIN Summary
           /\ Summary["failed"] >= 1
           /\ Summary["stored"] < Summary["found"]

\* The page the source returns to the k-th call, a fetch at calls[k].offset.
PageAt(k) == Page(source, calls[k].offset, FETCH_BATCH_SIZE)

\* C14 as stated: after a good page that is empty or shorter than the page
\* size, no further fetch is issued.
C14_StopsAtShortPage ==
    \A k \in 1..Len(calls) :
        (/\ calls[k].op = "get"
         /\ calls[k].outcome = "ok"
         /\ Len(PageAt(k)) < FETCH_BATCH_SIZE)
            => \A m \in (k + 1)..Len(calls) : calls[m].op # "get"

\* C14 amended: pagination ends at the first empty page and only there: no
\* fetch follows a good empty page, and every good non-empty page, short or
\* full, is followed by a fetch at the offset just past it.
C14_StopsAtEmptyPage ==
    \A k \in 1..Len(calls) :
        (calls[k].op = "get" /\ calls[k].outcome = "ok")
            => IF PageAt(k) = <<>>
               THEN \A m \in (k + 1)..Len(calls) : calls[m].op # "get"
               ELSE IF k = Len(calls)
               THEN pc = "fetch"
               ELSE /\ calls[k + 1].op = "get"
                    /\ calls[k + 1].offset = calls[k].offset + Len(PageAt(k))

\* A short, non-empty page was followed by one more fetch, which returned the
\* empty page and ended the pagination.
C14_Witness ==
    /\ pc # "fetch"
    /\ \E k \in 1..(Len(calls) - 1) :
        /\ calls[k].op = "get" /\ calls[k].outcome = "ok"
        /\ PageAt(k) # <<>>
        /\ Len(PageAt(k)) < FETCH_BATCH_SIZE
        /\ calls[k + 1].op = "get" /\ calls[k + 1].outcome = "ok"
        /\ PageAt(k + 1) = <<>>

\* ------------------------------------------------- the end-to-end fixture
\* Four embeddings A, B, C, D under ids 10..13, in server order.
E2ERecords ==
    << [id |-> 10, embedding |-> <<1, 0, 0>>],
       [id |-> 11, embedding |-> <<1, 0, 0>>],
       [id |-> 12, embedding |-> <<0, 1, 0>>],
       [id |-> 13, embedding |-> <<0, 0, 0>>] >>

\* Rows an earlier run may have left, among them one under the key (10, 11).
E2EStaleRows ==
    StaleRows \cup
    { [pattern_id_1 |-> 10, pattern_id_2 |-> 11, similarity |-> 900000],
      [pattern_id_1 |-> 10, pattern_id_2 |-> 12, similarity |-> 990000] }

\* main, started on the fixture with any chunk size and any earlier store.
InitE2E ==
    /\ ScriptsIdle
    /\ source = E2ERecords
    /\ CHUNK_SIZE \in 1..(Len(E2ERecords) + 1)
    /\ INSERT_BATCH_SIZE \in 1..MaxBatch
    /\ store \in SUBSET E2EStaleRows
    /\ store0 = store
    /\ pc = "fetch"
    /\ all_patterns = <<>>
    /\ offset = 0
    /\ pattern_ids = <<>>
    /\ normalized = <<>>
    /\ i = 0 /\ j = 0 /\ chunk_idx = 0 /\ compare_idx = 0
    /\ pairs_to_insert = <<>>
    /\ total_pairs_found = 0
    /\ calls = <<>>
    /\ submitted = <<>>
    /\ evaluated = <<>>
    /\ appended = <<>>
    /\ blocks = <<>>
    /\ run = 1
    /\ first_run = <<>>

SpecE2E == InitE2E /\ [][Next]_vars

\* C15: a run over the fixture in which every call succeeds ends with the
\* store holding exactly the pair (10, 11, 1.0), for every chunk size and
\* whatever the store held before.
C15_EndToEnd ==
    (pc = "done" /\ CleanRun /\ source = E2ERecords)
        => store = { [pattern_id_1 |-> 10, pattern_id_2 |-> 11,
                      similarity |-> 1000000] }

\* A finished clean run over the fixture with a ragged last block, started
\* on a store that held another score under the key (10, 11).
C15_Witness ==
    /\ pc = "done" /\ CleanRun /\ source = E2ERecords
    /\ CHUNK_SIZE = 3
    /\ \E r \in store0 : Key(r) = <<10, 11>> /\ r.similarity # 1000000
    /\ Len(evaluated) = 6
    /\ NumCalls("post") = 1

\* The fetched records whose embedding has Euclidean norm 0 (0-based index).
ZeroIndices ==
    { k \in 0..(Len(all_patterns) - 1) :
        \A d \in 1..Len(all_patterns[k + 1].embedding) :
            all_patterns[k + 1].embedding[d] = 0 }

\* C16: a vector of norm 0 is normalized to the zero vector, every
\* similarity evaluated with it is exactly 0, and no pair naming it is
\* appended or submitted.
C16_ZeroVectorNeverSubmitted ==
    normalized # <<>> =>
        \A z \in ZeroIndices :
            /\ \A d \in 1..Len(normalized[z + 1]) : normalized[z + 1][d] = 0
            /\ \A k \in 1..Len(evaluated) :
                (evaluated[k].i = z \/ evaluated[k].j = z)
                    => evaluated[k].sim = 0
            /\ \A k \in 1..Len(appended) :
                appended[k].i # z /\ appended[k].j # z
            /\ \A r \in Range(Flatten(submitted)) :
                /\ r.pattern_id_1 # all_patterns[z + 1].id
                /\ r.pattern_id_2 # all_patterns[z + 1].id

\* A finished run over three records, the middle one of norm 0, in which the
\* zero vector was compared with both others and the other pair was submitted.
C16_Witness ==
    /\ pc = "done"
    /\ n = 3
    /\ ZeroIndices = {1}
    /\ Cardinality({ k \in 1..Len(evaluated) :
                        evaluated[k].i = 1 \/ evaluated[k].j = 1 }) = 2
    /\ Len(Flatten(submitted)) = 1

\* The rows a set of records determines, whatever order they arrive in: one
\* row per two records of the set whose similarity is at least the
\* threshold, lower id first, score rounded.
RowsOfRecordSet(S) ==
    LET unit == [r \in S |-> normalize_embeddings(<<r.embedding>>)[1]]
        Sim(r1, r2) == Dot(unit[r1], unit[r2])
    IN  { [pattern_id_1 |-> p[1].id, pattern_id_2 |-> p[2].id,
           similarity |-> Round6(Sim(p[1], p[2]))] :
          p \in { q \in S \X S :
                    q[1].id < q[2].id /\
                    Sim(q[1], q[2]) >= MIN_SIMILARITY_THRESHOLD } }

\* The rows the whole pool determines, and of these the rows between two
\* records of S: a row depends on its two records alone.
PoolRows == RowsOfRecordSet(RecordPool)
RowsAmong(S) ==
    { r \in PoolRows :
        \E p, q \in S : r.pattern_id_1 = p.id /\ r.pattern_id_2 = q.id }

\* C17: the set of records submitted over a finished run is determined by
\* the set of input records, so it is the same for every order of the
\* input; the similarity of two rows does not depend on which comes first.
C17_OrderIndependent ==
    pc = "done" =>
        /\ Range(Flatten(submitted)) = RowsAmong(Range(source))
        /\ \A a, b \in 1..Len(normalized) :
            Dot(normalized[a], normalized[b]) = Dot(normalized[b], normalized[a])

\* A finished run whose input arrived in descending id order and in which
\* all three pairs were submitted.
C17_Witness ==
    /\ pc = "done"
    /\ n = 3
    /\ pattern_ids[1] > pattern_ids[2] /\ pattern_ids[2] > pattern_ids[3]
    /\ Cardinality(Range(Flatten(submitted))) = 3

\* print(f"Total comparisons: {n * (n - 1) // 2:,}")
TotalComparisons == (n * (n - 1)) \div 2

\* C18: no cell with i >= j is ever compared against the threshold and no
\* index pair is compared twice; once the loops are exhausted every pair
\* i < j has been compared exactly once, n*(n-1)/2 comparisons in all.
C18_EachPairOnce ==
    /\ \A k \in 1..Len(evaluated) :
        /\ evaluated[k].i < evaluated[k].j
        /\ \A m \in 1..Len(evaluated) :
            (evaluated[m].i = evaluated[k].i /\ evaluated[m].j = evaluated[k].j)
                => m = k
    /\ LoopsDone =>
        /\ Len(evaluated) = TotalComparisons
        /\ \A a, b \in 0..(n - 1) :
            a < b => \E k \in 1..Len(evaluated) :
                        evaluated[k].i = a /\ evaluated[k].j = b

\* The loops are exhausted over three records with chunk size 2, which does
\* not divide 3: three comparisons were made.
C18_Witness ==
    /\ LoopsDone
    /\ n = 3 /\ CHUNK_SIZE = 2
    /\ Len(evaluated) = 3
    /\ Len(blocks) = 3

\* The block starts the two range() loops visit: multiples of CHUNK_SIZE
\* below n, the column block never left of the row block.
BlockStarts ==
    { c \in (0..(n - 1)) \X (0..(n - 1)) :
        /\ c[1] % CHUNK_SIZE = 0
        /\ c[2] % CHUNK_SIZE = 0
        /\ c[1] <= c[2] }

\* C19: the blocks computed so far start at (0, 0); each next block is the
\* next column block of the same row block, or, after the last column block,
\* the diagonal block of the next row block; no block has b < a, none is
\* computed twice, and once the loops are exhausted every block start with
\* a <= b has been computed.
C19_BlockOrder ==
    /\ blocks # <<>> => (blocks[1].a = 0 /\ blocks[1].b = 0)
    /\ \A k \in 1..Len(blocks) :
        /\ blocks[k].b >= blocks[k].a
        /\ \A m \in 1..Len(blocks) :
            (blocks[m].a = blocks[k].a /\ blocks[m].b = blocks[k].b) => m = k
    /\ \A k \in 1..(Len(blocks) - 1) :
        \/ /\ blocks[k + 1].a = blocks[k].a
           /\ blocks[k + 1].b = blocks[k].b + CHUNK_SIZE
        \/ /\ blocks[k + 1].a = blocks[k].a + CHUNK_SIZE
           /\ blocks[k + 1].b = blocks[k + 1].a
           /\ blocks[k].b + CHUNK_SIZE >= n
    /\ LoopsDone =>
        { <<blocks[k].a, blocks[k].b>> : k \in 1..Len(blocks) } = BlockStarts

\* The loops are exhausted over three records with chunk size 1: six blocks,
\* the fourth being the diagonal block of the second row block.
C19_Witness ==
    /\ LoopsDone
    /\ n = 3 /\ CHUNK_SIZE = 1
    /\ Len(blocks) = 6
    /\ blocks[4].a = 1 /\ blocks[4].b = 1
    /\ blocks[6].a = 2 /\ blocks[6].b = 2

\* C20: every block entered has between 1 and CHUNK_SIZE rows and between 1
\* and CHUNK_SIZE columns, the ragged last one included, and is smaller
\* than the n x n matrix when n > CHUNK_SIZE; the matrix similarities holds
\* while a block is being scanned has exactly these dimensions.
C20_BlockWithinChunk ==
    /\ \A k \in 1..Len(blocks) :
        /\ blocks[k].rows \in 1..CHUNK_SIZE
        /\ blocks[k].cols \in 1..CHUNK_SIZE
        /\ n > CHUNK_SIZE => blocks[k].rows * blocks[k].cols < n * n
    /\ pc \in {"compute", "flush"} =>
        LET blk == similarities(i, j)
        IN  /\ Cardinality(DOMAIN blk) = blocks[Len(blocks)].rows
            /\ \A ci \in DOMAIN blk :
                Cardinality(DOMAIN blk[ci]) = blocks[Len(blocks)].cols

\* The ragged last column block of three records with chunk size 2 is being
\* scanned: two rows, one column.
C20_Witness ==
    /\ pc = "compute"
    /\ n = 3 /\ CHUNK_SIZE = 2
    /\ i = 0 /\ j = 2
    /\ Cardinality(DOMAIN similarities(i, j)) = 2
    /\ Cardinality(DOMAIN similarities(i, j)[0]) = 1

\* The step is an insert call.
IsFlushStep ==
    /\ Len(calls') = Len(calls) + 1
    /\ calls'[Len(calls')].op = "post"

\* C21 as stated: the buffer never holds more than INSERT_BATCH_SIZE
\* records, and it is empty right after every insert call.
C21_EmptyAfterEveryFlush ==
    /\ [](Len(pairs_to_insert) <= INSERT_BATCH_SIZE)
    /\ [][IsFlushStep => pairs_to_insert' = <<>>]_vars

\* C21 amended: the buffer never holds more than INSERT_BATCH_SIZE records;
\* it is empty right after every insert call made inside the loops that
\* returns, whatever the status of the answer; the insert call after the
\* loops, and one whose request raises, leave the buffer as it was.
C21_EmptyAfterLoopFlush ==
    /\ [](Len(pairs_to_insert) <= INSERT_BATCH_SIZE)
    /\ [][IsFlushStep =>
            IF pc = "flush" /\ calls'[Len(calls')].outcome # "exception"
            THEN pairs_to_insert' = <<>>
            ELSE pairs_to_insert' = pairs_to_insert /\ pairs_to_insert # <<>>]_vars

\* A finished run that sent a full batch from inside the loops, answered
\* with an HTTP error, and then the remainder, which is still in the buffer.
C21_Witness ==
    /\ pc = "done"
    /\ Len(submitted) = 2
    /\ calls[Len(calls) - 1].op = "post"
    /\ calls[Len(calls) - 1].outcome = "http_error"
    /\ Len(submitted[1]) = INSERT_BATCH_SIZE
    /\ pairs_to_insert = submitted[2]
    /\ pairs_to_insert # <<>>

\* C22: over a source without records the run makes no clear and no insert
\* call and never leaves the fetch phase for the compute phase: the store
\* stays as it was before the run.
C22_EmptySourceLeavesStore ==
    source = <<>> =>
        /\ store = store0
        /\ NumCalls("delete") = 0
        /\ NumCalls("post") = 0
        /\ pc \in {"fetch", "done", "aborted"}

\* main has returned after one good, empty page, the earlier rows still stored.
C22_Witness ==
    /\ source = <<>>
    /\ pc = "done"
    /\ calls = <<[op |-> "get", offset |-> 0, outcome |-> "ok"]>>
    /\ store0 = StaleRows
    /\ store = StaleRows

\* The ids of a sequence of records.
IdsOf(rows) == [k \in 1..Len(rows) |-> rows[k].id]

\* C23: each page is requested at the offset equal to the number of records
\* accumulated so far; the records accumulated are in ascending id order
\* without repetition; the pagination makes at most one request per page of
\* the table plus one for the empty page, so it ends; and when it has ended
\* without a failed request, the ids returned are those of all the table's
\* rows, once each.
C23_PaginationReturnsAll ==
    /\ pc = "fetch" => offset = Len(all_patterns)
    /\ NumCalls("get") <=
            ((Len(source) + FETCH_BATCH_SIZE - 1) \div FETCH_BATCH_SIZE) + 1
    /\ \A k \in 1..Len(calls) :
        calls[k].op = "get" =>
            calls[k].offset =
                Min((Cardinality({ m \in 1..(k - 1) : calls[m].op = "get" }))
                        * FETCH_BATCH_SIZE, Len(source))
    /\ \A k \in 1..(Len(all_patterns) - 1) :
        all_patterns[k].id < all_patterns[k + 1].id
    /\ (pc \notin {"fetch", "aborted"} \/ (pc = "aborted" /\ NumCalls("delete") > 0))
        => /\ Len(pattern_ids) = Len(source)
           /\ Range(all_patterns) = Range(source)
           /\ pattern_ids = IdsOf(all_patterns)

\* The pagination ended over a table of FETCH_BATCH_SIZE rows stored in
\* descending id order: one full page, one empty page, ids ascending.
C23_Witness ==
    /\ pc = "clear"
    /\ Len(source) = FETCH_BATCH_SIZE
    /\ source[1].id > source[2].id
    /\ NumCalls("get") = 2
    /\ Len(pattern_ids) = FETCH_BATCH_SIZE
    /\ pattern_ids[1] < pattern_ids[2]

\* ================================================= generate_embeddings.py
\* compute_similarities.py is not running.
ComputeIdle ==
    /\ source = <<>>
    /\ CHUNK_SIZE = 1
    /\ INSERT_BATCH_SIZE = 1
    /\ store = {}
    /\ store0 = {}
    /\ pc = "idle"
    /\ all_patterns = <<>>
    /\ offset = 0
    /\ pattern_ids = <<>>
    /\ normalized = <<>>
    /\ i = 0 /\ j = 0 /\ chunk_idx = 0 /\ compare_idx = 0
    /\ pairs_to_insert = <<>>
    /\ total_pairs_found = 0
    /\ calls = <<>>
    /\ submitted = <<>>
    /\ evaluated = <<>>
    /\ appended = <<>>
    /\ blocks = <<>>
    /\ run = 1
    /\ first_run = <<>>

\* The elements of a set of numbers in ascending order.
RECURSIVE Ascending(_)
Ascending(S) ==
    IF S = {} THEN <<>>
    ELSE LET m == CHOOSE x \in S : \A y \in S : x <= y
         IN  <<m>> \o Ascending(S \ {m})

\* The patterns with a thumbnail and no embedding.
WithoutEmbedding == (1..ge_count) \ ge_embedded

\* get_patterns_without_embeddings(limit): the first `limit` patterns with a
\* thumbnail and a null embedding, by ascending id.
get_patterns_without_embeddings(limit) ==
    SubSeq(Ascending(WithoutEmbedding), 1,
           Min(limit, Cardinality(WithoutEmbedding)))

\* What happens to one pattern inside the try block: a pattern of ge_failing
\* fails at the download, the embedding call or the update, each time; any
\* other pattern is embedded, or the API answers with a rate limit.
AttemptOutcomes(pattern) ==
    IF pattern \in ge_failing
    THEN {"download_error", "embed_error", "update_error"}
    ELSE {"ok"} \cup (IF ge_limited < MaxRateLimits THEN {"rate_limit"} ELSE {})

\* "rate limit" in error_msg.lower() or "RPM" in error_msg
IsRateLimit(outcome) == outcome = "rate_limit"

InitGen ==
    /\ ComputeIdle /\ MirrorIdle /\ RetryIdle /\ RotateIdle /\ UploadIdle
    /\ ge_pc = "fetch"
    /\ ge_count \in 0..MaxPatterns
    /\ ge_failing \in SUBSET (1..ge_count)
    /\ ge_embedded = {}
    /\ ge_patterns = <<>>
    /\ ge_index = 0
    /\ total_processed = 0
    /\ total_errors = 0
    /\ ge_limited = 0
    /\ ge_passes = <<>>

\* Top of the while loop: fetch a batch; an empty batch ends the loop.
GenFetch ==
    /\ ge_pc = "fetch"
    /\ Len(ge_passes) < MaxPasses
    /\ \E outcome \in {"ok", "http_error"} :
        IF outcome # "ok"
        THEN /\ ge_pc' = "aborted"
             /\ UNCHANGED <<ge_patterns, ge_index, ge_passes>>
        ELSE LET patterns == get_patterns_without_embeddings(VOYAGE_BATCH_SIZE)
             IN  /\ ge_patterns' = patterns
                 /\ ge_index' = 1
                 /\ ge_passes' = Append(ge_passes,
                                        [missing |-> WithoutEmbedding,
                                         limited |-> ge_limited])
                 /\ ge_pc' = IF patterns = <<>> THEN "done" ELSE "process"
    /\ UNCHANGED <<ge_count, ge_failing, ge_embedded, total_processed,
                   total_errors, ge_limited>>
    /\ UNCHANGED <<compute_vars, dm_vars, rt_vars, br_vars, up_vars>>

\* One iteration of the for loop over the batch.
GenPattern ==
    /\ ge_pc = "process"
    /\ LET pattern == ge_patterns[ge_index]
       IN  \E outcome \in AttemptOutcomes(pattern) :
            /\ IF outcome = "ok"
               THEN /\ ge_embedded' = ge_embedded \cup {pattern}
                    /\ total_processed' = total_processed + 1
                    /\ UNCHANGED <<total_errors, ge_limited>>
               ELSE IF IsRateLimit(outcome)
               THEN /\ ge_limited' = ge_limited + 1
                    /\ UNCHANGED <<ge_embedded, total_processed, total_errors>>
               ELSE /\ total_errors' = total_errors + 1
                    /\ UNCHANGED <<ge_embedded, total_processed, ge_limited>>
    /\ IF ge_index < Len(ge_patterns)
       THEN ge_index' = ge_index + 1 /\ ge_pc' = "process"
       ELSE ge_index' = ge_index /\ ge_pc' = "fetch"
    /\ UNCHANGED <<ge_count, ge_failing, ge_patterns, ge_passes>>
    /\ UNCHANGED <<compute_vars, dm_vars, rt_vars, br_vars, up_vars>>

NextGen == GenFetch \/ GenPattern

SpecGen == InitGen /\ [][NextGen]_vars

\* C24: the loop never starts a pass from what an earlier pass started from
\* (the same patterns without an embedding, no rate-limit answer in
\* between); a pass that repeats, repeats for ever, so this is what ending
\* on every finite pattern set requires.
C24_NoPassRepeats ==
    \A k, m \in 1..Len(ge_passes) :
        (k < m /\ ge_passes[k].missing # {}) => ge_passes[k] # ge_passes[m]

\* ====================================================== detect_mirrored.py
\* What the three helpers give for one pattern: whether download_image
\* returns data, what analyze_image returns (None, a verdict, or a JSON
\* object without the key is_mirrored or without the key confidence), and
\* whether the upsert of store_result is accepted.
PatternEnvs ==
    { [download |-> FALSE, analysis |-> "none", store |-> FALSE],
      [download |-> TRUE, analysis |-> "none", store |-> FALSE],
      [download |-> TRUE, analysis |-> "normal", store |-> TRUE],
      [download |-> TRUE, analysis |-> "normal", store |-> FALSE],
      [download |-> TRUE, analysis |-> "mirrored", store |-> TRUE],
      [download |-> TRUE, analysis |-> "mirrored", store |-> FALSE],
      [download |-> TRUE, analysis |-> "no_verdict", store |-> FALSE],
      [download |-> TRUE, analysis |-> "no_confidence", store |-> FALSE] }

\* key in analysis
HasKey(analysis, key) ==
    CASE key = "is_mirrored" -> analysis \in {"normal", "mirrored", "no_confidence"}
      [] key = "confidence" -> analysis \in {"normal", "mirrored", "no_verdict"}
      [] OTHER -> FALSE

\* analysis['is_mirrored']
IsMirrored(analysis) == analysis \in {"mirrored", "no_confidence"}

\* store_result builds its payload from result['is_mirrored'] and
\* result['confidence'] before the try block: a missing key raises.
StoreRaises(analysis) ==
    ~HasKey(analysis, "is_mirrored") \/ ~HasKey(analysis, "confidence")

\* if not dry_run: await store_result(...)
SkipsStore(dry) == dry

\* process_batch from the k-th pattern of the batch on; raised when an
\* exception leaves it.
RECURSIVE ProcessFrom(_, _, _, _)
ProcessFrom(batch, k, dry, acc) ==
    IF k > Len(batch) THEN acc
    ELSE
      LET p == batch[k]
          e == dm_env[p]
          got == [acc EXCEPT !.downloads = Append(@, p)]
          Result(a, status) == [id |-> p, analysis |-> a, status |-> status]
      IN  IF ~e.download
          THEN ProcessFrom(batch, k + 1, dry,
                   [got EXCEPT !.results =
                        Append(@, Result("none", "download_failed"))])
          ELSE IF e.analysis = "none"
          THEN ProcessFrom(batch, k + 1, dry,
                   [got EXCEPT !.analyzed = Append(@, p),
                               !.results =
                        Append(@, Result("none", "analysis_failed"))])
          ELSE IF SkipsStore(dry)
          THEN ProcessFrom(batch, k + 1, dry,
                   [got EXCEPT !.analyzed = Append(@, p),
                               !.results =
                        Append(@, Result(e.analysis, "success"))])
          ELSE IF StoreRaises(e.analysis)
          THEN [got EXCEPT !.analyzed = Append(@, p),
                           !.store_calls = Append(@, p),
                           !.raised = TRUE]
          ELSE ProcessFrom(batch, k + 1, dry,
                   [got EXCEPT !.analyzed = Append(@, p),
                               !.store_calls = Append(@, p),
                               !.stored = IF e.store THEN @ \cup {p} ELSE @,
                               !.results =
                        Append(@, Result(e.analysis, "success"))])

process_batch(batch, dry) ==
    ProcessFrom(batch, 1, dry,
                [results |-> <<>>, downloads |-> <<>>, analyzed |-> <<>>,
                 store_calls |-> <<>>, stored |-> {}, raised |-> FALSE])

\* The loop over the results of a batch in main, from the k-th result on;
\* raised when a missing key ends it.
RECURSIVE CountFrom(_, _, _)
CountFrom(results, k, acc) ==
    IF k > Len(results) THEN acc
    ELSE
      LET r == results[k]
          Line(label) == [id |-> r.id, label |-> label]
      IN  IF r.status # "success" \/ r.analysis = "none"
          THEN CountFrom(results, k + 1,
                   [acc EXCEPT !.failed = @ + 1,
                               !.reports = Append(@, Line(r.status))])
          ELSE IF ~HasKey(r.analysis, "is_mirrored")
          THEN [acc EXCEPT !.raised = TRUE]
          ELSE IF ~IsMirrored(r.analysis)
          THEN IF HasKey(r.analysis, "confidence")
               THEN CountFrom(results, k + 1,
                        [acc EXCEPT !.normal = @ + 1,
                                    !.reports = Append(@, Line("normal"))])
               ELSE [acc EXCEPT !.normal = @ + 1, !.raised = TRUE]
          ELSE IF HasKey(r.analysis, "confidence")
               THEN CountFrom(results, k + 1,
                        [acc EXCEPT !.mirrored = @ + 1,
                                    !.reports = Append(@, Line("MIRRORED"))])
               ELSE [acc EXCEPT !.mirrored = @ + 1, !.raised = TRUE]

\* One pass of the for loop over the batches in main: process_batch, the
\* loop over its results, and the except branch that marks every pattern of
\* the batch as failed.
BatchOutcome(batch, dry) ==
    LET done == process_batch(batch, dry)
        zero == [normal |-> 0, mirrored |-> 0, failed |-> 0,
                 reports |-> <<>>, raised |-> done.raised]
        counted == IF done.raised THEN zero
                   ELSE CountFrom(done.results, 1, zero)
        batch_error == [k \in 1..Len(batch) |->
                            [id |-> batch[k], label |-> "batch_error"]]
    IN  [normal |-> counted.normal,
         mirrored |-> counted.mirrored,
         failed |-> counted.failed +
                    (IF counted.raised THEN Len(batch) ELSE 0),
         reports |-> counted.reports \o
                     (IF counted.raised THEN batch_error ELSE <<>>),
         downloads |-> done.downloads,
         analyzed |-> done.analyzed,
         store_calls |-> done.store_calls,
         stored |-> done.stored]

\* patterns[i:i + args.batch_size]
BatchAt(start) ==
    SubSeq(dm_patterns, start + 1, Min(start + batch_size, Len(dm_patterns)))

InitMirror ==
    /\ ComputeIdle /\ GenIdle /\ RetryIdle /\ RotateIdle /\ UploadIdle
    /\ dm_pc = "start"
    /\ \E count \in 0..MaxToAnalyze :
        /\ dm_patterns = [k \in 1..count |-> k]
        /\ dm_env \in [1..count -> PatternEnvs]
    /\ dry_run \in BOOLEAN
    /\ batch_size \in 1..MaxBatchSize
    /\ dm_i = 0
    /\ total_normal = 0
    /\ total_mirrored = 0
    /\ total_failed = 0
    /\ mirror_analysis = {}
    /\ dm_reports = <<>>
    /\ dm_downloads = <<>>
    /\ dm_analyzed = <<>>
    /\ dm_store_calls = <<>>

\* main after fetch_patterns_to_analyze: nothing to analyze ends the run.
MirrorStart ==
    /\ dm_pc = "start"
    /\ dm_pc' = IF dm_patterns = <<>> THEN "returned" ELSE "batch"
    /\ UNCHANGED <<dm_patterns, dm_env, dry_run, batch_size, dm_i,
                   total_normal, total_mirrored, total_failed,
                   mirror_analysis, dm_reports, dm_downloads, dm_analyzed,
                   dm_store_calls>>
    /\ UNCHANGED <<compute_vars, ge_vars, rt_vars, br_vars, up_vars>>

\* One batch; after the last one, the summary.
MirrorBatch ==
    /\ dm_pc = "batch"
    /\ LET out == BatchOutcome(BatchAt(dm_i), dry_run)
       IN  /\ total_normal' = total_normal + out.normal
           /\ total_mirrored' = total_mirrored + out.mirrored
           /\ total_failed' = total_failed + out.failed
           /\ mirror_analysis' = mirror_analysis \cup out.stored
           /\ dm_reports' = dm_reports \o out.reports
           /\ dm_downloads' = dm_downloads \o out.downloads
           /\ dm_analyzed' = dm_analyzed \o out.analyzed
           /\ dm_store_calls' = dm_store_calls \o out.store_calls
    /\ dm_i' = dm_i + batch_size
    /\ dm_pc' = IF dm_i + batch_size >= Len(dm_patterns) THEN "done" ELSE "batch"
    /\ UNCHANGED <<dm_patterns, dm_env, dry_run, batch_size>>
    /\ UNCHANGED <<compute_vars, ge_vars, rt_vars, br_vars, up_vars>>

NextMirror == MirrorStart \/ MirrorBatch

SpecMirror == InitMirror /\ [][NextMirror]_vars

\* C25: when main prints its summary the three counters add up to the
\* number of patterns fetched for analysis.
C25_CountersPartitionPatterns ==
    dm_pc = "done" =>
        total_normal + total_mirrored + total_failed = Len(dm_patterns)

\* The per-pattern lines a whole run prints from batch start `start` on.
RECURSIVE ReportsFrom(_, _)
ReportsFrom(start, dry) ==
    IF start >= Len(dm_patterns) THEN <<>>
    ELSE BatchOutcome(BatchAt(start), dry).reports \o
         ReportsFrom(start + batch_size, dry)

\* C28: with --dry-run store_result is never called and mirror_analysis is
\* not written; at the summary every pattern has been downloaded, every
\* downloaded image analyzed, and the lines printed are those the same run
\* prints without --dry-run.
C28_DryRunOnlySkipsStore ==
    dry_run =>
        /\ dm_store_calls = <<>>
        /\ mirror_analysis = {}
        /\ dm_pc = "done" =>
            /\ dm_downloads = dm_patterns
            /\ \A p \in 1..Len(dm_patterns) :
                dm_env[p].download =>
                    \E k \in 1..Len(dm_analyzed) : dm_analyzed[k] = p
            /\ dm_reports = ReportsFrom(0, FALSE)

\* ------------------------------ detect_mirrored.py: the three retry loops
\* max_retries=3 in the three signatures
DEFAULT_MAX_RETRIES == 3

RetryFunctions == {"download_image", "analyze_image", "store_result"}

\* The answers one request of each function can get: a good response (for
\* analyze_image with a body that parses or not), a 429, another bad
\* status, a timeout or other exception.
Responses(fn) ==
    CASE fn = "download_image" -> {"ok", "http_error", "timeout"}
      [] fn = "analyze_image" ->
            {"ok_json", "ok_unparsable", "rate_limited", "http_error", "timeout"}
      [] fn = "store_result" -> {"ok", "http_error", "timeout"}

\* The responses on which the function returns from inside the loop.
EndsLoop(response) == response \in {"ok", "ok_json", "ok_unparsable"}

\* What it returns then.
ReturnValue(fn, response) ==
    CASE fn = "download_image" -> "data"
      [] fn = "analyze_image" ->
            IF response = "ok_json" THEN "analysis" ELSE "None"
      [] fn = "store_result" -> "True"

\* return None / return None / return False after the loop
FailureValue(fn) == IF fn = "store_result" THEN "False" ELSE "None"

\* The sleeps after a request that did not end the loop: 30 s on a 429,
\* otherwise 2 ** attempt unless this was the last attempt.
SleepAfter(fn, response, k, retries) ==
    IF fn = "analyze_image" /\ response = "rate_limited" THEN <<30>>
    ELSE IF k < retries - 1 THEN <<2 ^ k>>
    ELSE <<>>

\* Variant: for attempt in range(max_retries + 1).
AttemptsOneMore(retries) == retries + 1

\* for attempt in range(max_retries)
AttemptsAllowed(retries) == retries

InitRetry ==
    /\ ComputeIdle /\ GenIdle /\ MirrorIdle /\ RotateIdle /\ UploadIdle
    /\ rt_pc = "loop"
    /\ rt_fn \in RetryFunctions
    /\ max_retries \in 1..MaxRetries
    /\ attempt = 0
    /\ rt_return = "none"
    /\ rt_responses = <<>>
    /\ rt_sleeps = <<>>

\* One pass of the for loop: one request, then the return, or the sleep and
\* the next attempt, or the return after the last attempt.
RetryAttempt ==
    /\ rt_pc = "loop"
    /\ attempt < AttemptsAllowed(max_retries)
    /\ \E response \in Responses(rt_fn) :
        /\ rt_responses' = Append(rt_responses, response)
        /\ IF EndsLoop(response)
           THEN /\ rt_return' = ReturnValue(rt_fn, response)
                /\ rt_pc' = "returned"
                /\ UNCHANGED <<attempt, rt_sleeps>>
           ELSE /\ rt_sleeps' = rt_sleeps \o
                        SleepAfter(rt_fn, response, attempt, max_retries)
                /\ IF attempt + 1 < AttemptsAllowed(max_retries)
                   THEN /\ attempt' = attempt + 1
                        /\ UNCHANGED <<rt_pc, rt_return>>
                   ELSE /\ rt_return' = FailureValue(rt_fn)
                        /\ rt_pc' = "returned"
                        /\ UNCHANGED attempt
    /\ UNCHANGED <<rt_fn, max_retries>>
    /\ UNCHANGED <<compute_vars, ge_vars, dm_vars, br_vars, up_vars>>

NextRetry == RetryAttempt

SpecRetry == InitRetry /\ [][NextRetry]_vars

\* C26: a call makes at most max_retries requests, a 429 counting as one;
\* no request follows a good response; the call returns on the first good
\* response with what that response gives, and otherwise after max_retries
\* requests with its failure value (None, None, False).
C26_RetriesBounded ==
    LET good == {"ok", "ok_json", "ok_unparsable"}
        made == Len(rt_responses)
    IN  /\ made <= max_retries
        /\ \A k \in 1..(made - 1) : rt_responses[k] \notin good
        /\ rt_pc = "loop" =>
            /\ made < max_retries
            /\ \A k \in 1..made : rt_responses[k] \notin good
        /\ rt_pc = "returned" =>
            IF rt_responses[made] \in good
            THEN rt_return =
                    (CASE rt_fn = "download_image" -> "data"
                       [] rt_fn = "store_result" -> "True"
                       [] rt_fn = "analyze_image" ->
                            IF rt_responses[made] = "ok_json"
                            THEN "analysis" ELSE "None")
            ELSE /\ made = max_retries
                 /\ rt_return = (IF rt_fn = "store_result" THEN "False" ELSE "None")

\* analyze_image with three attempts answered 429 each time: it has
\* returned None after three requests.
C26_Witness ==
    /\ rt_fn = "analyze_image"
    /\ max_retries = 3
    /\ rt_pc = "returned"
    /\ rt_responses = <<"rate_limited", "rate_limited", "rate_limited">>
    /\ rt_return = "None"

\* C27: when store_result with the default max_retries has failed on every
\* attempt, the waits it made were 1 s, 2 s and 4 s.
C27_BackoffOneTwoFour ==
    (/\ rt_fn = "store_result"
     /\ max_retries = DEFAULT_MAX_RETRIES
     /\ rt_pc = "returned"
     /\ rt_return = "False")
        => rt_sleeps = <<1, 2, 4>>

\* ================================================ bulk_rotate_portraits.py
\* What get_image_dimensions finds for a thumbnail.
Shapes == {"portrait", "landscape", "unreadable"}

\* if height > width
IsPortrait(shape) == shape = "portrait"

\* The point at which one call of rotate_and_upload stops: the download,
\* the upload or the update of the embedding raises, or none does.
RotateOutcomes == {"download_error", "upload_error", "update_error", "ok"}

\* The PUT with x-upsert has replaced the stored image when it did not raise.
Uploaded(outcome) == outcome \in {"update_error", "ok"}

\* The PATCH of embedding to null has taken effect when it did not raise.
EmbeddingCleared(outcome) == outcome = "ok"

InitRotate ==
    /\ ComputeIdle /\ GenIdle /\ MirrorIdle /\ RetryIdle /\ UploadIdle
    /\ br_pc = "check"
    /\ \E count \in 0..MaxThumbnails :
        br_env \in [1..count -> [shape : Shapes, embedding : BOOLEAN]]
    /\ br_dry_run \in BOOLEAN
    /\ br_i = 0
    /\ portraits = <<>>
    /\ errors = <<>>
    /\ rotated = 0
    /\ failed = 0
    /\ thumbnail = [p \in 1..Len(br_env) |-> "original"]
    /\ embedding = [p \in 1..Len(br_env) |-> br_env[p].embedding]
    /\ br_returns = <<>>

\* One pass of the loop over the patterns: the dimensions of one thumbnail.
RotateCheck ==
    /\ br_pc = "check"
    /\ br_i < Len(br_env)
    /\ LET pattern_id == br_i + 1
           shape == br_env[pattern_id].shape
       IN  /\ errors' = IF shape = "unreadable"
                        THEN Append(errors, pattern_id) ELSE errors
           /\ portraits' = IF shape # "unreadable" /\ IsPortrait(shape)
                           THEN Append(portraits, pattern_id) ELSE portraits
    /\ br_i' = br_i + 1
    /\ UNCHANGED <<br_pc, br_env, br_dry_run, rotated, failed, thumbnail,
                   embedding, br_returns>>
    /\ UNCHANGED <<compute_vars, ge_vars, dm_vars, rt_vars, up_vars>>

\* After the first loop: the results, and the return on --dry-run or when
\* there is no portrait.
RotateResults ==
    /\ br_pc = "check"
    /\ br_i = Len(br_env)
    /\ br_pc' = IF br_dry_run \/ portraits = <<>> THEN "returned" ELSE "rotate"
    /\ br_i' = 0
    /\ UNCHANGED <<br_env, br_dry_run, portraits, errors, rotated, failed,
                   thumbnail, embedding, br_returns>>
    /\ UNCHANGED <<compute_vars, ge_vars, dm_vars, rt_vars, up_vars>>

\* One pass of the loop over the portraits: rotate_and_upload and the count
\* of its value; after the last one, the summary.
RotateOne ==
    /\ br_pc = "rotate"
    /\ \E outcome \in RotateOutcomes :
        LET pattern_id == portraits[br_i + 1]
            value == outcome = "ok"
        IN  /\ thumbnail' = IF Uploaded(outcome)
                            THEN [thumbnail EXCEPT ![pattern_id] = "rotated"]
                            ELSE thumbnail
            /\ embedding' = IF EmbeddingCleared(outcome)
                            THEN [embedding EXCEPT ![pattern_id] = FALSE]
                            ELSE embedding
            /\ br_returns' = Append(br_returns,
                                    [id |-> pattern_id, value |-> value])
            /\ rotated' = IF value THEN rotated + 1 ELSE rotated
            /\ failed' = IF value THEN failed ELSE failed + 1
    /\ br_i' = br_i + 1
    /\ br_pc' = IF br_i + 1 < Len(portraits) THEN "rotate" ELSE "done"
    /\ UNCHANGED <<br_env, br_dry_run, portraits, errors>>
    /\ UNCHANGED <<compute_vars, ge_vars, dm_vars, rt_vars, up_vars>>

NextRotate == RotateCheck \/ RotateResults \/ RotateOne

SpecRotate == InitRotate /\ [][NextRotate]_vars

\* C29: a pattern whose stored thumbnail is the rotated image has no
\* embedding, and a pattern for which rotate_and_upload returned False
\* has its thumbnail and its embedding as they were before the run.
C29_RotatedMeansCleared ==
    /\ \A p \in 1..Len(br_env) :
        thumbnail[p] = "rotated" => ~embedding[p]
    /\ \A k \in 1..Len(br_returns) :
        ~br_returns[k].value =>
            /\ thumbnail[br_returns[k].id] = "original"
            /\ embedding[br_returns[k].id] = br_env[br_returns[k].id].embedding

\* ======================================================= upload_patterns.py
\* File names are sequences of characters.
QLI == <<".", "q", "l", "i">>
PDF == <<".", "p", "d", "f">>

\* PATTERN_EXTENSIONS and PDF_EXTENSION
PATTERN_EXTENSIONS == {QLI}
PDF_EXTENSION == PDF

\* The entries an archive is made of: a pattern file, the same name in
\* upper case inside a folder, two more pattern files, a drawing, a folder.
ZipNames ==
    { <<"a">> \o QLI,
      <<"d", "/", "A", ".", "Q", "L", "I">>,
      <<"b">> \o QLI,
      <<"c">> \o QLI,
      <<"b">> \o PDF,
      <<"d", "/">> }

\* The file_name column of a row of the table: empty, or a name that the
\* archive holds in another case.
DbFileNames == { <<>>, <<"A">> \o QLI }

\* str.lower, a character at a time.
LowerChar(c) ==
    CASE c = "A" -> "a"
      [] c = "B" -> "b"
      [] c = "C" -> "c"
      [] c = "D" -> "d"
      [] c = "Q" -> "q"
      [] c = "L" -> "l"
      [] c = "I" -> "i"
      [] OTHER -> c

lower(s) == [k \in 1..Len(s) |-> LowerChar(s[k])]

\* str.rfind for one character: the last position of c in s, 0 if none.
rfind(s, c) ==
    LET at == { k \in 1..Len(s) : s[k] = c }
    IN  IF at = {} THEN 0 ELSE CHOOSE k \in at : \A m \in at : m <= k

\* Path(s).name: what follows the last slash.
PathName(s) == SubSeq(s, rfind(s, "/") + 1, Len(s))

\* Path(s).suffix: the last dot of the name and what follows it, when that
\* dot is neither the first nor the last character of the name.
suffix(s) ==
    LET name == PathName(s)
        dot == rfind(name, ".")
    IN  IF 1 < dot /\ dot < Len(name)
        THEN SubSeq(name, dot, Len(name)) ELSE <<>>

\* Path(s).stem: the name without its suffix.
stem(s) ==
    LET name == PathName(s)
    IN  SubSeq(name, 1, Len(name) - Len(suffix(s)))

normalize_pattern_name(filename) == lower(stem(filename))

\* The rows of the table in the order the requests return them.
RECURSIVE TableRows(_)
TableRows(rows) ==
    IF rows = {} THEN <<>>
    ELSE LET first == CHOOSE r \in rows : \A q \in rows : r.id <= q.id
         IN  <<first>> \o TableRows(rows \ {first})

\* get_existing_pattern_names from the given start on: one request for a
\* range of NAMES_BATCH_SIZE rows, the names of its rows, and the next
\* request unless the page was empty or short.
RECURSIVE ExistingFrom(_, _, _)
ExistingFrom(rows, start, existing) ==
    LET data == SubSeq(rows, start + 1,
                       Min(start + NAMES_BATCH_SIZE, Len(rows)))
        names == { lower(stem(data[k].file_name)) :
                     k \in { m \in 1..Len(data) : data[m].file_name # <<>> } }
    IN  IF data = <<>> THEN existing
        ELSE IF Len(data) < NAMES_BATCH_SIZE THEN existing \cup names
        ELSE ExistingFrom(rows, start + NAMES_BATCH_SIZE, existing \cup names)

get_existing_pattern_names(table) == ExistingFrom(TableRows(table), 0, {})

\* get_next_pattern_id
get_next_pattern_id(table) ==
    IF table = {} THEN 1
    ELSE (CHOOSE r \in table : \A q \in table : q.id <= r.id).id + 1

\* The entry of the catalog for a name, 0 if it has none.
EntryOf(catalog, name) ==
    LET at == { k \in 1..Len(catalog) : catalog[k].name = name }
    IN  IF at = {} THEN 0 ELSE CHOOSE k \in at : TRUE

\* The first pass over the archive, from the k-th entry on: the catalog is
\* a dict, kept here as the sequence of its items in insertion order.
RECURSIVE CatalogFrom(_, _, _)
CatalogFrom(names, k, catalog) ==
    IF k > Len(names) THEN catalog
    ELSE
      LET name == names[k]
          ext == lower(suffix(name))
          pattern_name == normalize_pattern_name(name)
          at == EntryOf(catalog, pattern_name)
          with_entry == IF at = 0
                        THEN Append(catalog, [name |-> pattern_name,
                                              qli |-> <<>>, pdf |-> <<>>])
                        ELSE catalog
          here == IF at = 0 THEN Len(catalog) + 1 ELSE at
      IN  IF name[Len(name)] = "/" THEN CatalogFrom(names, k + 1, catalog)
          ELSE IF ext \in PATTERN_EXTENSIONS
          THEN CatalogFrom(names, k + 1,
                           [with_entry EXCEPT ![here].qli = name])
          ELSE IF ext = PDF_EXTENSION
          THEN CatalogFrom(names, k + 1,
                           [with_entry EXCEPT ![here].pdf = name])
          ELSE CatalogFrom(names, k + 1, catalog)

\* Variant: every pattern of the run is given the id read at the start.
PatternIdFixed(first_id, index) == first_id

\* pattern_id = next_id + i
PatternId(first_id, index) == first_id + index

\* The ways one pass of the upload loop ends: the record is inserted, the
\* record is inserted without a thumbnail because the drawing could not be
\* rendered or stored, or reading, storing or inserting the pattern raises.
UploadOutcomes(files) ==
    IF files.pdf # <<>> THEN {"uploaded", "no_thumbnail", "error"}
    ELSE {"uploaded", "error"}

Skipped(names) == [k \in 1..Len(names) |-> [name |-> names[k],
                                            reason |-> "Duplicate"]]

InitUpload ==
    /\ ComputeIdle /\ GenIdle /\ MirrorIdle /\ RetryIdle /\ RotateIdle
    /\ up_pc = "catalog"
    /\ \E entries \in 0..MaxZipEntries :
        /\ namelist \in [1..entries -> ZipNames]
        /\ \A m, k \in 1..entries : m # k => namelist[m] # namelist[k]
    /\ \E ids \in SUBSET (1..MaxDbId) :
        \E file_name \in [ids -> DbFileNames] :
            db = { [id |-> p, file_name |-> file_name[p]] : p \in ids }
    /\ valid_patterns = <<>>
    /\ new_patterns = <<>>
    /\ duplicates = <<>>
    /\ next_id = 0
    /\ up_i = 0
    /\ up_results = [uploaded |-> <<>>, skipped |-> <<>>, errors |-> <<>>]
    /\ db_at_read = {}
    /\ assigned = <<>>

\* The first pass over the archive and the patterns that have a QLI file.
UploadCatalog ==
    /\ up_pc = "catalog"
    /\ LET HasQli(v) == v.qli # <<>>
       IN  valid_patterns' = SelectSeq(CatalogFrom(namelist, 1, <<>>), HasQli)
    /\ up_pc' = "filter"
    /\ UNCHANGED <<namelist, db, new_patterns, duplicates, next_id, up_i,
                   up_results, db_at_read, assigned>>
    /\ UNCHANGED <<compute_vars, ge_vars, dm_vars, rt_vars, br_vars>>

\* The check for duplicates, the return when nothing is new, and the read
\* of the next id.
UploadFilter ==
    /\ up_pc = "filter"
    /\ LET existing_names == get_existing_pattern_names(db)
           IsNew(v) == v.name \notin existing_names
           IsDuplicate(v) == v.name \in existing_names
           fresh == SelectSeq(valid_patterns, IsNew)
           dups == SelectSeq(valid_patterns, IsDuplicate)
           dup_names == [k \in 1..Len(dups) |-> dups[k].name]
       IN  /\ new_patterns' = fresh
           /\ duplicates' = dup_names
           /\ up_results' = [uploaded |-> <<>>, skipped |-> Skipped(dup_names),
                             errors |-> <<>>]
           /\ IF fresh = <<>>
              THEN /\ up_pc' = "returned"
                   /\ UNCHANGED <<next_id, db_at_read>>
              ELSE /\ up_pc' = "upload"
                   /\ next_id' = get_next_pattern_id(db)
                   /\ db_at_read' = db
    /\ UNCHANGED <<namelist, db, valid_patterns, up_i, assigned>>
    /\ UNCHANGED <<compute_vars, ge_vars, dm_vars, rt_vars, br_vars>>

\* One pass of the loop over the new patterns.
UploadPattern ==
    /\ up_pc = "upload"
    /\ LET files == new_patterns[up_i + 1]
           pattern_id == PatternId(next_id, up_i)
       IN  \E outcome \in UploadOutcomes(files) :
            /\ assigned' = Append(assigned,
                                  [id |-> pattern_id, name |-> files.name,
                                   qli |-> files.qli,
                                   uploaded |-> outcome # "error"])
            /\ IF outcome = "error"
               THEN /\ up_results' =
                        [up_results EXCEPT !.errors =
                            Append(@, [name |-> files.name])]
                    /\ UNCHANGED db
               ELSE /\ db' = db \cup { [id |-> pattern_id,
                                        file_name |-> files.name \o QLI] }
                    /\ up_results' =
                        [up_results EXCEPT !.uploaded =
                            Append(@, [id |-> pattern_id,
                                       name |-> files.name,
                                       has_thumbnail |->
                                           outcome = "uploaded"
                                           /\ files.pdf # <<>>])]
    /\ up_i' = up_i + 1
    /\ up_pc' = IF up_i + 1 < Len(new_patterns) THEN "upload" ELSE "returned"
    /\ UNCHANGED <<namelist, valid_patterns, new_patterns, duplicates,
                   next_id, db_at_read>>
    /\ UNCHANGED <<compute_vars, ge_vars, dm_vars, rt_vars, br_vars>>

NextUpload == UploadCatalog \/ UploadFilter \/ UploadPattern

SpecUpload == InitUpload /\ [][NextUpload]_vars

\* The normalized names of the rows of a table, read off the rows directly.
NamesIn(table) ==
    { lower(stem(r.file_name)) : r \in { q \in table : q.file_name # <<>> } }

\* C30: within one run of process_zip the ids given to the new patterns are
\* pairwise distinct and each is greater than every id the table held when
\* the next id was read; the id of a pattern that failed is not given to a
\* later pattern; and no uploaded pattern has a normalized name that the
\* table already held.
C30_FreshIdsNoDuplicates ==
    /\ \A m, k \in 1..Len(assigned) :
        m # k => assigned[m].id # assigned[k].id
    /\ \A k \in 1..Len(assigned) :
        \A r \in db_at_read : assigned[k].id > r.id
    /\ \A m, k \in 1..Len(assigned) :
        (m < k /\ ~assigned[m].uploaded) => assigned[k].id # assigned[m].id
    /\ \A k \in 1..Len(assigned) :
        assigned[k].uploaded =>
            lower(stem(assigned[k].qli)) \notin NamesIn(db_at_read)
    /\ \A k \in 1..Len(up_results.uploaded) :
        /\ up_results.uploaded[k].name \notin NamesIn(db_at_read)
        /\ \E m \in 1..Len(assigned) :
            /\ assigned[m].uploaded
            /\ assigned[m].id = up_results.uploaded[k].id

\* C30 witness: a run has returned in which the table held rows, a
\* duplicate was skipped, a pattern failed and a later one was uploaded.
C30_Witness ==
    /\ up_pc = "returned"
    /\ db_at_read # {}
    /\ duplicates # <<>>
    /\ \E m, k \in 1..Len(assigned) :
        /\ m < k
        /\ ~assigned[m].uploaded
        /\ assigned[k].uploaded
====
